---- MODULE Spec2Model ----
(***************************************************************************)
(* Boundary detection and filter-graph generation of nhk-record, with its  *)
(* schedule cache and main loop.                                           *)
(*                                                                         *)
(* Numbers in ffmpeg's diagnostic text are decimal fractions of a second.  *)
(* A text number is modelled by its value in units of 1/10000 s, so that   *)
(* parseFloat(x) * 1000 is u / 10 milliseconds and Math.round decides the  *)
(* millisecond.  Parsed times are milliseconds.                            *)
(***************************************************************************)
EXTENDS Integers, Sequences, FiniteSets, TLC

VARIABLES
  pc,            \* position of the detection call: "idle" | "running" | "done"
  command,       \* which detection runs: "none" | "boundary" | "banner"
  outputLines,   \* stderr lines of the ffmpeg detection process
  silences,      \* findSilences(outputLines), once computed
  searched,      \* names of the strategies evaluated, in order (logger.debug)
  candidates,    \* the features the detection call returned
  ppc,            \* position of postProcessRecording: "idle" | "called" | "done" | "failed"
  threadLimit,    \* config.threadLimit
  cropParameters, \* argument: the crop observations [time (ms), width]
  start,          \* argument: trim start (ms)
  end,            \* argument: trim end (ms), 0 for none
  numStreams,     \* ffprobe's nb_streams
  probe,          \* ffprobe's answer to getVideoDimensions
  targetWidth,    \* postProcessRecording's local
  targetHeight,   \* postProcessRecording's local
  args,           \* the post-process ffmpeg arguments, group by group
  ffmpegRuns,     \* how often the post-process ffmpeg command was executed
  warned,         \* whether the fallback warning was logged
  clock,                 \* now(), milliseconds
  scheduleData,          \* schedule.ts: the cached schedule, "null" before any
  scheduleDataTimestamp, \* schedule.ts: now() when the cache was last filled
  getScheduleCalls,      \* how often getSchedule was called
  latest,                \* what the most recent successful getSchedule returned
  call,                  \* the last getScheduleMemoized call and its outcome
  mpc,            \* position of main: "idle" | "poll" | "sleep" | "exited"
  safetyBuffer,   \* config.safetyBuffer
  programme,      \* what the last getCurrentProgramme gave main
  sleepMillis,    \* the sleep main is in, or was last in
  tasks,          \* the recordIfDesired invocations started, each with its state
  logged,         \* what main's two catch handlers logged, in order
  polls           \* how often main called getCurrentProgramme

detectVars == <<pc, command, outputLines, silences, searched, candidates>>

postVars == <<ppc, threadLimit, cropParameters, start, end, numStreams, probe,
              targetWidth, targetHeight, args, ffmpegRuns, warned>>

cacheVars == <<clock, scheduleData, scheduleDataTimestamp, getScheduleCalls,
               latest, call>>

mainVars == <<mpc, safetyBuffer, programme, sleepMillis, tasks, logged, polls>>

vars == <<detectVars, postVars, cacheVars, mainVars>>

----------------------------------------------------------------------------
(* Bounds of the model *)

\* most lines one ffmpeg detection run emits
MaxLines == 6

\* largest silence_end / silence_duration text tried exhaustively (1/10000 s)
MaxText == 30

\* most crop observations handed to postProcessRecording
MaxCrops == 3

\* most lines of a detection output whose line order is arbitrary
MaxShuffled == 4

\* largest width tried exhaustively for the scale and offset calculators
MaxWidth == 16

\* most getScheduleMemoized calls followed when the schedule module runs alone
MaxCalls == 5

\* most passes of main's loop followed
MaxPolls == 6

----------------------------------------------------------------------------
(* Arithmetic helpers *)

\* Math.round(num / den) for den > 0: floor(num / den + 1/2)
Round(num, den) == (2 * num + den) \div (2 * den)

\* Math.round(parseFloat(text) * 1000), text in units of 1/10000 s
MillisOfText(u) == Round(u, 10)

Last(s) == s[Len(s)]

RECURSIVE Flatten(_)
Flatten(ss) == IF ss = <<>> THEN <<>> ELSE Head(ss) \o Flatten(Tail(ss))

----------------------------------------------------------------------------
(* Diagnostic lines.  A line either matches SILENCEDETECT_FILTER_OUTPUT_-  *)
(* PATTERN (its named groups endTime, duration) or BLACKFRAME_FILTER_-     *)
(* OUTPUT_PATTERN (filterNum, frame, time); neither matches the other's.   *)

SilenceLine(e, d) == [kind |-> "silencedetect", endTime |-> e, duration |-> d]

BlackframeLine(f, n, t) ==
  [kind |-> "blackframe", filterNum |-> f, frame |-> n, time |-> t]

----------------------------------------------------------------------------
(* The strategy table.  minSilenceSeconds is kept in tenths of a second    *)
(* (1.5 s = 15, 0.1 s = 1); a field the source leaves out is left out.     *)

BOUNDARY_STRATEGIES == <<
  [name |-> "black-logo",                 filters |-> {11}, minSilenceSeconds |-> 15, minFrames |-> 5],
  [name |-> "white-logo",                 filters |-> {13}, minSilenceSeconds |-> 15, minFrames |-> 5],
  [name |-> "white-borders-logo",         filters |-> {15}, minSilenceSeconds |-> 15, minFrames |-> 5],
  [name |-> "black-logo-ai-subtitles",    filters |-> {17}, minSilenceSeconds |-> 15, minFrames |-> 5],
  [name |-> "black-no-logo-ai-subtitles", filters |-> {19}, minSilenceSeconds |-> 15, minFrames |-> 5],
  [name |-> "no-logo",                    filters |-> {20}, minSilenceSeconds |-> 1,  minFrames |-> 3],
  [name |-> "newsline",                   filters |-> {22}, minSilenceSeconds |-> 0,  minFrames |-> 1] >>

NEWS_BANNER_STRATEGY ==
  [name |-> "news-banner-background", filters |-> {13}, maxSkip |-> 120, minFrames |-> 120]

\* strategy.maxSkip ?? 1
MaxSkipOf(strategy) ==
  IF "maxSkip" \in DOMAIN strategy THEN strategy.maxSkip ELSE 1

\* strategy.minSilenceSeconds ?? 0, in tenths of a second
MinSilenceOf(strategy) ==
  IF "minSilenceSeconds" \in DOMAIN strategy THEN strategy.minSilenceSeconds ELSE 0

----------------------------------------------------------------------------
(* findSilences *)

\* mutant: the duration added to the end time instead of subtracted
findSilencesAdded(ffmpegLines) ==
  LET ms == SelectSeq(ffmpegLines, LAMBDA line : line.kind = "silencedetect")
  IN  [i \in 1..Len(ms) |->
         [startTime |-> Round(ms[i].endTime + ms[i].duration, 10),
          endTime   |-> MillisOfText(ms[i].endTime)]]

findSilences(ffmpegLines) ==
  LET ms == SelectSeq(ffmpegLines, LAMBDA line : line.kind = "silencedetect")
  IN  [i \in 1..Len(ms) |->
         [startTime |-> Round(ms[i].endTime - ms[i].duration, 10),
          endTime   |-> MillisOfText(ms[i].endTime)]]

----------------------------------------------------------------------------
(* The interval tree (node-interval-tree): entries keyed by their low end, *)
(* kept here in key order, equal keys in insertion order.  search(low,     *)
(* high) reports every entry whose closed interval meets [low, high]; the  *)
(* order among several matches is the tree's own, here the key order.      *)

TreeInsert(tree, low, high, data) ==
  LET before == SelectSeq(tree, LAMBDA n : n.low <= low)
      after  == SelectSeq(tree, LAMBDA n : n.low > low)
  IN  before \o <<[low |-> low, high |-> high, data |-> data]>> \o after

\* mutant: search reports every entry, overlapping or not
TreeSearchAll(tree, low, high) ==
  [i \in 1..Len(tree) |-> tree[i].data]

TreeSearch(tree, low, high) ==
  LET ns == SelectSeq(tree, LAMBDA n : n.low <= high /\ n.high >= low)
  IN  [i \in 1..Len(ns) |-> ns[i].data]

RECURSIVE BuildWindows(_, _)
BuildWindows(ss, tree) ==
  IF ss = <<>> THEN tree
  ELSE BuildWindows(Tail(ss),
         TreeInsert(tree, Head(ss).startTime, Head(ss).endTime,
                    Head(ss).endTime - Head(ss).startTime))

\* candidateWindows of detectPotentialBoundaries
CandidateWindows(ss) == BuildWindows(ss, <<>>)

----------------------------------------------------------------------------
(* findBlackframeGroups, stage by stage *)

\* .map(match).filter(x => x).map(parse)
ParseBlackframes(ffmpegLines) ==
  LET ms == SelectSeq(ffmpegLines, LAMBDA line : line.kind = "blackframe")
  IN  [i \in 1..Len(ms) |->
         [filterNum |-> ms[i].filterNum,
          frameNum  |-> ms[i].frame,
          time      |-> MillisOfText(ms[i].time)]]

\* head(candidateWindows.search(time, time)) ?? 0 >= (strategy.minSilenceSeconds ?? 0)
\* parses as head(...) ?? (0 >= ...): a found window answers with its own
\* duration, taken as a truth value; no window answers 0 >= minSilenceSeconds.
SilenceGate(time, strategy, candidateWindows) ==
  LET found == TreeSearch(candidateWindows, time, time)
  IN  IF found # <<>> THEN Head(found) # 0
      ELSE 0 >= MinSilenceOf(strategy)

\* the two .filter stages
SelectFrames(ffmpegLines, strategy, candidateWindows) ==
  SelectSeq(
    SelectSeq(ParseBlackframes(ffmpegLines),
              LAMBDA f : f.filterNum \in strategy.filters),
    LAMBDA f : SilenceGate(f.time, strategy, candidateWindows))

\* compareFunc(props)(a, b): the first property on which a and b differ
\* decides; a property neither object has compares equal.
RECURSIVE CompareFunc(_, _, _)
CompareFunc(props, a, b) ==
  IF props = <<>> THEN 0
  ELSE LET p == Head(props)
       IN  IF p \notin DOMAIN a /\ p \notin DOMAIN b
             THEN CompareFunc(Tail(props), a, b)
           ELSE IF a[p] = b[p] THEN CompareFunc(Tail(props), a, b)
           ELSE IF a[p] < b[p] THEN -1 ELSE 1

\* the keys the source hands to compareFunc
SortKeys == <<"filterNum", "frame">>

\* Array.prototype.sort with that comparator (stable)
RECURSIVE SortFrames(_)
SortFrames(fs) ==
  IF fs = <<>> THEN <<>>
  ELSE LET sorted == SortFrames(SubSeq(fs, 1, Len(fs) - 1))
           x      == Last(fs)
           keep   == SelectSeq(sorted, LAMBDA y : CompareFunc(SortKeys, y, x) <= 0)
           move   == SelectSeq(sorted, LAMBDA y : CompareFunc(SortKeys, y, x) > 0)
       IN  keep \o <<x>> \o move

\* mutant: a gap of exactly maxSkip already starts a new run
GroupStepStrict(frameGroups, frame, strategy) ==
  IF frameGroups = <<>> THEN << <<frame>> >>
  ELSE LET frameGroup == Last(frameGroups)
           lastFrame  == Last(frameGroup)
       IN  IF frame.frameNum - lastFrame.frameNum < MaxSkipOf(strategy)
              /\ frame.filterNum = lastFrame.filterNum
             THEN [frameGroups EXCEPT ![Len(frameGroups)] = Append(frameGroup, frame)]
             ELSE Append(frameGroups, <<frame>>)

\* one step of the .reduce
GroupStep(frameGroups, frame, strategy) ==
  IF frameGroups = <<>> THEN << <<frame>> >>
  ELSE LET frameGroup == Last(frameGroups)
           lastFrame  == Last(frameGroup)
       IN  IF frame.frameNum - lastFrame.frameNum <= MaxSkipOf(strategy)
              /\ frame.filterNum = lastFrame.filterNum
             THEN [frameGroups EXCEPT ![Len(frameGroups)] = Append(frameGroup, frame)]
             ELSE Append(frameGroups, <<frame>>)

RECURSIVE GroupFrames(_, _, _)
GroupFrames(fs, strategy, frameGroups) ==
  IF fs = <<>> THEN frameGroups
  ELSE GroupFrames(Tail(fs), strategy, GroupStep(frameGroups, Head(fs), strategy))

\* the runs before the minFrames filter
FrameGroups(ffmpegLines, strategy, candidateWindows) ==
  GroupFrames(SortFrames(SelectFrames(ffmpegLines, strategy, candidateWindows)),
              strategy, <<>>)

\* mutant: a run of exactly minFrames events is rejected
LongEnoughStrict(frameGroup, strategy) == Len(frameGroup) > strategy.minFrames

\* .filter((frameGroup) => frameGroup.length >= strategy.minFrames)
LongEnough(frameGroup, strategy) == Len(frameGroup) >= strategy.minFrames

ToFeature(frameGroup) ==
  [start      |-> Head(frameGroup).time,
   end        |-> Last(frameGroup).time,
   firstFrame |-> Head(frameGroup).frameNum,
   lastFrame  |-> Last(frameGroup).frameNum]

findBlackframeGroups(ffmpegLines, strategy, candidateWindows) ==
  LET kept == SelectSeq(FrameGroups(ffmpegLines, strategy, candidateWindows),
                        LAMBDA g : LongEnough(g, strategy))
  IN  [i \in 1..Len(kept) |-> ToFeature(kept[i])]

----------------------------------------------------------------------------
(* detectPotentialBoundaries *)

\* mutant: the loop does not stop at the first non-empty result; a later
\* strategy's result replaces it
RECURSIVE StrategyLoopLastWins(_, _, _, _)
StrategyLoopLastWins(k, lines, candidateWindows, log) ==
  IF k > Len(BOUNDARY_STRATEGIES) THEN [searched |-> log, candidates |-> <<>>]
  ELSE LET strategy == BOUNDARY_STRATEGIES[k]
           found    == findBlackframeGroups(lines, strategy, candidateWindows)
           log2     == Append(log, strategy.name)
           later    == StrategyLoopLastWins(k + 1, lines, candidateWindows, log2)
       IN  IF Len(later.candidates) > 0 \/ Len(found) = 0 THEN later
           ELSE [searched |-> log2, candidates |-> found]

\* the for loop over BOUNDARY_STRATEGIES from index k on; log is the
\* strategies announced so far
RECURSIVE StrategyLoop(_, _, _, _)
StrategyLoop(k, lines, candidateWindows, log) ==
  IF k > Len(BOUNDARY_STRATEGIES) THEN [searched |-> log, candidates |-> <<>>]
  ELSE LET strategy == BOUNDARY_STRATEGIES[k]
           found    == findBlackframeGroups(lines, strategy, candidateWindows)
           log2     == Append(log, strategy.name)
       IN  IF Len(found) > 0 THEN [searched |-> log2, candidates |-> found]
           ELSE StrategyLoop(k + 1, lines, candidateWindows, log2)

\* mutant: no early return when there is no silence
DetectResultAlwaysSearch(lines) ==
  StrategyLoop(1, lines, CandidateWindows(findSilences(lines)), <<>>)

DetectResult(lines) ==
  LET ss == findSilences(lines)
  IN  IF Len(ss) = 0 THEN [searched |-> <<>>, candidates |-> <<>>]
      ELSE StrategyLoop(1, lines, CandidateWindows(ss), <<>>)

----------------------------------------------------------------------------
(* detectNewsBanners: the same grouping, no silence index *)

BannerResult(lines) == findBlackframeGroups(lines, NEWS_BANNER_STRATEGY, <<>>)

----------------------------------------------------------------------------
(* Probing: getStreamCount and getVideoDimensions *)

FULL_CROP_WIDTH == 1920

\* stream.width ?? stream.coded_width
Coalesce(stream, field, fallback) ==
  IF field \in DOMAIN stream THEN <<stream[field]>>
  ELSE IF fallback \in DOMAIN stream THEN <<stream[fallback]>>
  ELSE <<>>

\* (result.streams ?? [])[0] ?? {}
FirstStream(answer) ==
  IF Len(answer.streams) > 0 THEN answer.streams[1] ELSE [f \in {} |-> 0]

\* mutant: the coded dimensions are read first
getVideoDimensionsCodedFirst(answer) ==
  IF answer.status # "ok" THEN [ok |-> FALSE]
  ELSE LET stream == FirstStream(answer)
           width  == Coalesce(stream, "coded_width", "width")
           height == Coalesce(stream, "coded_height", "height")
       IN  IF width = <<>> \/ height = <<>> THEN [ok |-> FALSE]
           ELSE [ok |-> TRUE, width |-> width[1], height |-> height[1]]

\* ok = FALSE: the call throws (ffprobe failed, or a dimension is missing)
getVideoDimensions(answer) ==
  IF answer.status # "ok" THEN [ok |-> FALSE]
  ELSE LET stream == FirstStream(answer)
           width  == Coalesce(stream, "width", "coded_width")
           height == Coalesce(stream, "height", "coded_height")
       IN  IF width = <<>> \/ height = <<>> THEN [ok |-> FALSE]
           ELSE [ok |-> TRUE, width |-> width[1], height |-> height[1]]

----------------------------------------------------------------------------
(* The filter graph.  An expression is <<"val", v>> or                     *)
(* <<"if", time, v, else>>, standing for if(gte(t, time / 1000), v, else); *)
(* a filter is a record naming the ffmpeg filter and its parameters.       *)

\* the widths the calculators are applied to
WidthDomain == 1..MaxWidth \cup {1280, 1440, 1920}

\* mutant: the half is truncated instead of rounded
makeCalculateScaleWidthTruncated(outputWidth) ==
  [cropWidth \in WidthDomain |-> ((outputWidth * outputWidth) \div (cropWidth * 2)) * 2]

makeCalculateScaleWidth(outputWidth) ==
  [cropWidth \in WidthDomain |-> Round(outputWidth * outputWidth, cropWidth * 2) * 2]

makeCalculateOverlayPosition(outputWidth) ==
  [cropWidth \in WidthDomain |-> Round(cropWidth - outputWidth, 2)]

\* mutant: the recursion ends at the earliest observation's own value
RECURSIVE generateTimeSequenceToEarliest(_, _, _)
generateTimeSequenceToEarliest(calcValue, cps, defaultWidth) ==
  IF cps = <<>> THEN <<"val", calcValue[defaultWidth]>>
  ELSE IF Last(cps).time = 0 \/ Len(cps) = 1 THEN <<"val", calcValue[Last(cps).width]>>
  ELSE <<"if", Last(cps).time, calcValue[Last(cps).width],
         generateTimeSequenceToEarliest(calcValue, SubSeq(cps, 1, Len(cps) - 1),
                                        defaultWidth)>>

RECURSIVE generateTimeSequence(_, _, _)
generateTimeSequence(calcValue, cps, defaultWidth) ==
  IF cps = <<>> THEN <<"val", calcValue[defaultWidth]>>
  ELSE IF Last(cps).time = 0 THEN <<"val", calcValue[Last(cps).width]>>
  ELSE <<"if", Last(cps).time, calcValue[Last(cps).width],
         generateTimeSequence(calcValue, SubSeq(cps, 1, Len(cps) - 1), defaultWidth)>>

\* mutant: the canvas and the crop are 1920x1080 whatever was probed
generateFilterChainFixedSize(startMs, cps, hasThumbnail, tWidth, tHeight) ==
  LET calcPos   == makeCalculateOverlayPosition(tWidth)
      calcScale == makeCalculateScaleWidth(tWidth)
      filters   ==
        (IF Len(cps) > 0
           THEN <<[filter |-> "nullsrc", width |-> 1920, height |-> 1080],
                  [filter |-> "overlay", x |-> generateTimeSequence(calcPos, cps, tWidth)],
                  [filter |-> "scale", width |-> generateTimeSequence(calcScale, cps, tWidth)],
                  [filter |-> "crop", width |-> 1920, height |-> 1080]>>
           ELSE <<>>)
        \o (IF hasThumbnail THEN <<[filter |-> "setpts", offset |-> startMs]>> ELSE <<>>)
  IN  IF filters # <<>> THEN << <<"-filter_complex", filters>> >> ELSE <<>>

generateFilterChain(startMs, cps, hasThumbnail, tWidth, tHeight) ==
  LET calcPos   == makeCalculateOverlayPosition(tWidth)
      calcScale == makeCalculateScaleWidth(tWidth)
      filters   ==
        (IF Len(cps) > 0
           THEN <<[filter |-> "nullsrc", width |-> tWidth, height |-> tHeight],
                  [filter |-> "overlay", x |-> generateTimeSequence(calcPos, cps, tWidth)],
                  [filter |-> "scale", width |-> generateTimeSequence(calcScale, cps, tWidth)],
                  [filter |-> "crop", width |-> tWidth, height |-> tHeight]>>
           ELSE <<>>)
        \o (IF hasThumbnail THEN <<[filter |-> "setpts", offset |-> startMs]>> ELSE <<>>)
  IN  IF filters # <<>> THEN << <<"-filter_complex", filters>> >> ELSE <<>>

----------------------------------------------------------------------------
(* getFfmpegPostProcessArguments: the argument groups in order, before     *)
(* they are flattened.  Times are kept in milliseconds.                    *)

\* mutant: the video is mapped from the filter graph and re-encoded always
VideoStreamArgsAlways(cps) ==
  << <<"-map", "[c]">>, <<"-crf", "19">>, <<"-preset", "veryfast">>,
     <<"-codec:v:0", "libx264">> >>

\* cropParameters.length > 0 ? [map [c], crf, preset, libx264] : [map 0:0]
VideoStreamArgs(cps) ==
  IF Len(cps) > 0
    THEN << <<"-map", "[c]">>, <<"-crf", "19">>, <<"-preset", "veryfast">>,
            <<"-codec:v:0", "libx264">> >>
    ELSE << <<"-map", "0:0">> >>

getFfmpegPostProcessArguments(limit, startMs, endMs, cps, hasThumbnail, tWidth, tHeight) ==
  << <<"-y">> >>
  \o (IF limit > 0 THEN << <<"-threads", limit>> >> ELSE <<>>)
  \o << <<"-i", "inputPath">> >>
  \o (IF hasThumbnail THEN << <<"-i", "inputPath">> >> ELSE <<>>)
  \o << <<"-ss", startMs>> >>
  \o (IF endMs # 0 THEN << <<"-to", endMs>> >> ELSE <<>>)
  \o << <<"-codec", "copy">> >>
  \o generateFilterChain(startMs, cps, hasThumbnail, tWidth, tHeight)
  \o VideoStreamArgs(cps)
  \o << <<"-map", "0:1">> >>
  \o (IF hasThumbnail
        THEN << <<"-map", "[tn]">>, <<"-codec:v:1", "mjpeg">>,
                <<"-disposition:v:1", "attached_pic">> >>
        ELSE <<>>)
  \o << <<"-map_metadata", "0">>, <<"-f", "mp4">>, <<"outputPath">> >>

----------------------------------------------------------------------------
(* postProcessRecording *)

\* the state before any post-processing call
PostIdle ==
  /\ ppc = "idle"
  /\ threadLimit = 0
  /\ cropParameters = <<>>
  /\ start = 0
  /\ end = 0
  /\ numStreams = 0
  /\ probe = [status |-> "none"]
  /\ targetWidth = 0
  /\ targetHeight = 0
  /\ args = <<>>
  /\ ffmpegRuns = 0
  /\ warned = FALSE

----------------------------------------------------------------------------
(* schedule.ts: the schedule cache.  Times are milliseconds since the      *)
(* epoch; now() is the variable clock.                                     *)

MAX_CACHE_AGE == 60 * 60 * 1000

Minute == 60 * 1000

\* what now() reads when the process starts: a wall clock, hours past the epoch
ClockAtStart == 10 * MAX_CACHE_AGE

\* scheduleData before any fetch, and a find() that found nothing
Null      == [null |-> TRUE]
Undefined == [undefined |-> TRUE]

\* rawSchedule.channel.item as the API lists it: a programme of 30 minutes
\* on air at the start, 2 seconds without a programme, a programme of 5
\* minutes, then the news and another programme of 30 minutes
RawItems == <<
  [title |-> "Journeys in Japan", content_clean |-> "travel",
   pubDate |-> ClockAtStart - 10 * Minute, endDate |-> ClockAtStart + 20 * Minute],
  [title |-> "Journeys in Japan", content_clean |-> "digest",
   pubDate |-> ClockAtStart + 20 * Minute + 2000, endDate |-> ClockAtStart + 25 * Minute],
  [title |-> "NHK NEWSLINE",      content_clean |-> "news",
   pubDate |-> ClockAtStart + 25 * Minute, endDate |-> ClockAtStart + 45 * Minute],
  [title |-> "Journeys in Japan", content_clean |-> "travel",
   pubDate |-> ClockAtStart + 45 * Minute, endDate |-> ClockAtStart + 75 * Minute] >>

\* what the schedule request can come back with: a failed request, a JSON
\* body without channel.item, and the listing
Responses ==
  {[status |-> "error"], [status |-> "ok"], [status |-> "ok", item |-> RawItems]}

\* how long a schedule request can take
FetchMillis == {0, 2000}

\* items.map(...): the programme of a raw item
ToProgramme(item) ==
  [title     |-> item.title,
   content   |-> item.content_clean,
   startDate |-> item.pubDate,
   endDate   |-> item.endDate]

\* getSchedule on its n-th call: ok = FALSE when it throws.  The array it
\* returns is a new one each time, told apart by id.
getSchedule(response, n) ==
  IF response.status # "ok" THEN [ok |-> FALSE]
  ELSE IF "item" \notin DOMAIN response THEN [ok |-> FALSE]
  ELSE [ok    |-> TRUE,
        value |-> [id    |-> n,
                   items |-> [i \in 1..Len(response.item) |->
                                ToProgramme(response.item[i])]]]

\* mutant: a cache of exactly MAX_CACHE_AGE still counts as fresh
getScheduleMemoizedInclusive(response, dt) ==
  LET cacheAge == clock - scheduleDataTimestamp
      got      == getSchedule(response, getScheduleCalls + 1)
  IN  IF cacheAge <= MAX_CACHE_AGE
        THEN [scheduleData |-> scheduleData, scheduleDataTimestamp |-> scheduleDataTimestamp,
              clock |-> clock, age |-> cacheAge,
              fetched |-> FALSE, failed |-> FALSE, thrown |-> FALSE, value |-> scheduleData]
      ELSE IF got.ok
        THEN [scheduleData |-> got.value, scheduleDataTimestamp |-> clock + dt,
              clock |-> clock + dt, age |-> cacheAge,
              fetched |-> TRUE, failed |-> FALSE, thrown |-> FALSE, value |-> got.value]
      ELSE [scheduleData |-> scheduleData, scheduleDataTimestamp |-> scheduleDataTimestamp,
            clock |-> clock + dt, age |-> cacheAge,
            fetched |-> TRUE, failed |-> TRUE, thrown |-> scheduleData = Null,
            value |-> scheduleData]

\* mutant: a failed refresh stamps the cache as just filled
getScheduleMemoizedStampsFailure(response, dt) ==
  LET cacheAge == clock - scheduleDataTimestamp
      got      == getSchedule(response, getScheduleCalls + 1)
  IN  IF cacheAge < MAX_CACHE_AGE
        THEN [scheduleData |-> scheduleData, scheduleDataTimestamp |-> scheduleDataTimestamp,
              clock |-> clock, age |-> cacheAge,
              fetched |-> FALSE, failed |-> FALSE, thrown |-> FALSE, value |-> scheduleData]
      ELSE IF got.ok
        THEN [scheduleData |-> got.value, scheduleDataTimestamp |-> clock + dt,
              clock |-> clock + dt, age |-> cacheAge,
              fetched |-> TRUE, failed |-> FALSE, thrown |-> FALSE, value |-> got.value]
      ELSE [scheduleData |-> scheduleData, scheduleDataTimestamp |-> clock + dt,
            clock |-> clock + dt, age |-> cacheAge,
            fetched |-> TRUE, failed |-> TRUE, thrown |-> scheduleData = Null,
            value |-> scheduleData]

\* getScheduleMemoized from call to return: the request, if one is made,
\* comes back with response after dt milliseconds.  The record holds the
\* module's two variables and the clock as the call leaves them, the cache
\* age it computed, whether getSchedule was called and whether it threw,
\* and the value returned, or thrown = TRUE when the error is rethrown.
getScheduleMemoized(response, dt) ==
  LET cacheAge == clock - scheduleDataTimestamp
      got      == getSchedule(response, getScheduleCalls + 1)
  IN  IF cacheAge < MAX_CACHE_AGE
        THEN [scheduleData |-> scheduleData, scheduleDataTimestamp |-> scheduleDataTimestamp,
              clock |-> clock, age |-> cacheAge,
              fetched |-> FALSE, failed |-> FALSE, thrown |-> FALSE, value |-> scheduleData]
      ELSE IF got.ok
        THEN [scheduleData |-> got.value, scheduleDataTimestamp |-> clock + dt,
              clock |-> clock + dt, age |-> cacheAge,
              fetched |-> TRUE, failed |-> FALSE, thrown |-> FALSE, value |-> got.value]
      ELSE [scheduleData |-> scheduleData, scheduleDataTimestamp |-> scheduleDataTimestamp,
            clock |-> clock + dt, age |-> cacheAge,
            fetched |-> TRUE, failed |-> TRUE, thrown |-> scheduleData = Null,
            value |-> scheduleData]

\* getCurrentProgramme on the outcome m of its getScheduleMemoized call, with
\* config.safetyBuffer = buffer: rejected when the call threw or when find is
\* called on null, else the first programme on air at now() + buffer, or
\* undefined
getCurrentProgramme(m, buffer) ==
  IF m.thrown \/ m.value = Null THEN [rejected |-> TRUE]
  ELSE LET currTime == m.clock + buffer
           onAir    == SelectSeq(m.value.items,
                         LAMBDA p : currTime > p.startDate /\ currTime < p.endDate)
       IN  [rejected  |-> FALSE,
            programme |-> IF onAir = <<>> THEN Undefined ELSE Head(onAir)]

\* the state a getScheduleMemoized call with outcome m leaves the module in
CacheAfter(m) ==
  /\ clock' = m.clock
  /\ scheduleData' = m.scheduleData
  /\ scheduleDataTimestamp' = m.scheduleDataTimestamp
  /\ getScheduleCalls' = IF m.fetched THEN getScheduleCalls + 1 ELSE getScheduleCalls
  /\ latest' = IF m.fetched /\ ~m.failed THEN m.value ELSE latest
  /\ call' = [n |-> call.n + 1, age |-> m.age, fetched |-> m.fetched,
              failed |-> m.failed, thrown |-> m.thrown, value |-> m.value]

\* the module as loaded
CacheIdle ==
  /\ clock = ClockAtStart
  /\ scheduleData = Null
  /\ scheduleDataTimestamp = 0
  /\ getScheduleCalls = 0
  /\ latest = Null
  /\ call = [n |-> 0, age |-> 0, fetched |-> FALSE, failed |-> FALSE,
             thrown |-> FALSE, value |-> Null]

----------------------------------------------------------------------------
(* The main loop and recordIfDesired *)

\* config.matchPattern, by the titles it matches (case ignored), and
\* config.minimumDuration
MatchedTitles == {"Journeys in Japan"}

MinimumDuration == 5 * Minute

\* mutant: the duration is not looked at
isDesiredProgrammeAnyDuration(p) == p.title \in MatchedTitles

isDesiredProgramme(p) ==
  LET duration     == p.endDate - p.startDate
      desiredTitle == p.title \in MatchedTitles
  IN  desiredTitle /\ duration > MinimumDuration

\* recordIfDesired(programme) up to its first await: where the invocation
\* stands, what recordingExists answered and whether record was called
recordIfDesired(p) ==
  [programme |-> p,
   state     |-> IF isDesiredProgramme(p) THEN "recordingExists" ELSE "returned",
   existing  |-> "unknown",
   recorded  |-> FALSE]

\* Math.max(a, b)
Max(a, b) == IF a >= b THEN a ELSE b

\* main not running
MainIdle ==
  /\ mpc = "idle"
  /\ safetyBuffer = 0
  /\ programme = Undefined
  /\ sleepMillis = 0
  /\ tasks = <<>>
  /\ logged = <<>>
  /\ polls = 0

----------------------------------------------------------------------------
(* What a detection run of ffmpeg can print.  Frame n of a blackframe      *)
(* filter is reported at t = n / 10 s.                                     *)

FrameLine(f, n) == BlackframeLine(f, n, n * 1000)

LongSilence  == SilenceLine(44500, 44500)   \* silence_end: 4.45 | silence_duration: 4.45
ShortSilence == SilenceLine(45000, 6000)    \* silence_end: 4.5 | silence_duration: 0.6

\* getFfmpegBoundaryDetectionArguments: blackframe filters 11..22 and
\* silencedetect.  Here filter 22 reports frames 10, 11 and 30, filter 20
\* frames 20..22 and filter 11 frames 40..44.
BoundaryLines ==
  {LongSilence, ShortSilence}
    \cup {FrameLine(22, n) : n \in {10, 11, 30}}
    \cup {FrameLine(20, n) : n \in 20..22}
    \cup {FrameLine(11, n) : n \in 40..44}

\* getFfmpegNewsBannerDetectionArguments: one blackframe filter, no audio filter
BannerLines == {FrameLine(13, n) : n \in {10, 11, 30, 130, 300}}

LinesOf(cmd) == IF cmd = "boundary" THEN BoundaryLines ELSE BannerLines

InLines(l) == \E i \in 1..Len(outputLines) : outputLines[i] = l

\* ffmpeg filters the frames in presentation order: a frame is reported once,
\* and not before an earlier frame
InFrameOrder(l) ==
  l.kind = "blackframe" =>
    \A i \in 1..Len(outputLines) :
      outputLines[i].kind = "blackframe" => outputLines[i].frame <= l.frame

----------------------------------------------------------------------------
(* The state machine of a detection call *)

\* the state before any detection call
DetectIdle ==
  /\ pc = "idle"
  /\ command = "none"
  /\ outputLines = <<>>
  /\ silences = <<>>
  /\ searched = <<>>
  /\ candidates = <<>>

Init == DetectIdle /\ PostIdle /\ CacheIdle /\ MainIdle

\* detectPotentialBoundaries / detectNewsBanners is called and spawns ffmpeg
Start(cmd) ==
  /\ pc = "idle"
  /\ pc' = "running"
  /\ command' = cmd
  /\ UNCHANGED <<outputLines, silences, searched, candidates, postVars, cacheVars, mainVars>>

\* ffmpeg prints one more line on stderr
Emit(l) ==
  /\ pc = "running"
  /\ Len(outputLines) < MaxLines
  /\ l \in LinesOf(command)
  /\ ~InLines(l)
  /\ InFrameOrder(l)
  /\ outputLines' = Append(outputLines, l)
  /\ UNCHANGED <<pc, command, silences, searched, candidates, postVars, cacheVars, mainVars>>

\* ffmpeg exits; detectPotentialBoundaries runs to its return
DetectBoundaries ==
  /\ pc = "running"
  /\ command = "boundary"
  /\ pc' = "done"
  /\ silences' = findSilences(outputLines)
  /\ searched' = DetectResult(outputLines).searched
  /\ candidates' = DetectResult(outputLines).candidates
  /\ UNCHANGED <<command, outputLines, postVars, cacheVars, mainVars>>

\* ffmpeg exits; detectNewsBanners runs to its return
DetectBanners ==
  /\ pc = "running"
  /\ command = "banner"
  /\ pc' = "done"
  /\ candidates' = BannerResult(outputLines)
  /\ UNCHANGED <<command, outputLines, silences, searched, postVars, cacheVars, mainVars>>

Next ==
  \/ \E cmd \in {"boundary", "banner"} : Start(cmd)
  \/ \E l \in BoundaryLines \cup BannerLines : Emit(l)
  \/ DetectBoundaries
  \/ DetectBanners

Spec == Init /\ [][Next]_vars

----------------------------------------------------------------------------
(* Post-processing on its own: postProcessRecording is called with every   *)
(* time-ordered crop sequence up to MaxCrops, and ffprobe answers.         *)

CropObservations == [time : {0, 1000, 2000}, width : {1440, 1920}]

CropSequences ==
  {cps \in UNION {[1..n -> CropObservations] : n \in 0..MaxCrops} :
     \A i \in 1..(Len(cps) - 1) : cps[i].time <= cps[i + 1].time}

Optional(field, values) == {[f \in {} |-> 0]} \cup {field :> v : v \in values}

\* the first video stream of ffprobe's JSON: any of the four fields may be missing
Streams ==
  {w @@ h @@ cw @@ ch :
     w  \in Optional("width", {1280, 1920}),
     h  \in Optional("height", {720, 1080}),
     cw \in Optional("coded_width", {1920}),
     ch \in Optional("coded_height", {1088})}

ProbeAnswers ==
  {[status |-> "error"], [status |-> "ok", streams |-> <<>>]}
    \cup {[status |-> "ok", streams |-> <<s>>] : s \in Streams}

InitPost ==
  /\ DetectIdle
  /\ ppc = "called"
  /\ threadLimit \in {0, 2}
  /\ cropParameters \in CropSequences
  /\ start \in {0, 5000}
  /\ end \in {0, 60000}
  /\ numStreams = 0
  /\ probe = [status |-> "none"]
  /\ targetWidth = 0
  /\ targetHeight = 0
  /\ args = <<>>
  /\ ffmpegRuns = 0
  /\ warned = FALSE
  /\ CacheIdle
  /\ MainIdle

\* postProcessRecording from its call to its return: ffprobe reports n
\* streams and answers the dimension probe; ffmpeg is run on the arguments
PostProcess(n, answer) ==
  /\ ppc = "called"
  /\ LET hasThumbnail == n > 2
         dims         == getVideoDimensions(answer)
         tWidth       == IF dims.ok THEN dims.width ELSE FULL_CROP_WIDTH
         tHeight      == IF dims.ok THEN dims.height ELSE 1080
     IN  /\ numStreams' = n
         /\ probe' = answer
         /\ targetWidth' = tWidth
         /\ targetHeight' = tHeight
         /\ warned' = ~dims.ok
         /\ args' = getFfmpegPostProcessArguments(threadLimit, start, end,
                      cropParameters, hasThumbnail, tWidth, tHeight)
  /\ ffmpegRuns' = ffmpegRuns + 1
  /\ ppc' = "done"
  /\ UNCHANGED <<threadLimit, cropParameters, start, end, detectVars, cacheVars, mainVars>>

\* getStreamCount's ffprobe fails: the error leaves postProcessRecording
PostProcessFails ==
  /\ ppc = "called"
  /\ ppc' = "failed"
  /\ UNCHANGED <<threadLimit, cropParameters, start, end, numStreams, probe,
                 targetWidth, targetHeight, args, ffmpegRuns, warned, detectVars,
                 cacheVars, mainVars>>

NextPost ==
  \/ \E n \in {2, 3}, answer \in ProbeAnswers : PostProcess(n, answer)
  \/ PostProcessFails

SpecPost == InitPost /\ [][NextPost]_vars

----------------------------------------------------------------------------
(* The calculators on their own: postProcessRecording is called with one   *)
(* crop observation of any width up to MaxWidth or 1920, on a recording    *)
(* whose probed width is any of these too.                                 *)

ScaleWidths == 1..MaxWidth \cup {1920}

InitScale ==
  /\ DetectIdle
  /\ ppc = "called"
  /\ threadLimit = 0
  /\ cropParameters \in {<<[time |-> t, width |-> cw]>> : t \in {0, 1000}, cw \in ScaleWidths}
  /\ start = 0
  /\ end = 0
  /\ numStreams = 0
  /\ probe = [status |-> "none"]
  /\ targetWidth = 0
  /\ targetHeight = 0
  /\ args = <<>>
  /\ ffmpegRuns = 0
  /\ warned = FALSE
  /\ CacheIdle
  /\ MainIdle

NextScale ==
  \E w \in ScaleWidths :
    PostProcess(2, [status |-> "ok", streams |-> <<[width |-> w, height |-> 1080]>>])

SpecScale == InitScale /\ [][NextScale]_vars

----------------------------------------------------------------------------
(* Silence parsing on its own: one silencedetect line with every end time  *)
(* and duration text up to MaxText, and the documented example.            *)

EndTexts      == 0..MaxText \cup {105000}
DurationTexts == 0..MaxText \cup {20000}

InitSilence ==
  /\ pc = "running"
  /\ command = "boundary"
  /\ outputLines \in {<<SilenceLine(e, d)>> : e \in EndTexts, d \in DurationTexts}
  /\ silences = <<>>
  /\ searched = <<>>
  /\ candidates = <<>>
  /\ PostIdle
  /\ CacheIdle
  /\ MainIdle

NextSilence == DetectBoundaries

SpecSilence == InitSilence /\ [][NextSilence]_vars

----------------------------------------------------------------------------
(* Detection on lines in any order: findBlackframeGroups takes an array of *)
(* lines and does not itself require them in frame order.  The output is   *)
(* any sequence of up to MaxShuffled distinct lines.                       *)

ShuffledBoundaryLines ==
  {LongSilence}
    \cup {FrameLine(22, n) : n \in {10, 11, 30}}
    \cup {FrameLine(20, n) : n \in 20..22}

ShuffledBannerLines == {FrameLine(13, n) : n \in {10, 11, 30, 130, 131, 300}}

\* the sequences of distinct elements of S, up to length n
Arrangements(S, n) ==
  {s \in UNION {[1..m -> S] : m \in 0..n} :
     \A i, j \in 1..Len(s) : i # j => s[i] # s[j]}

InitShuffled ==
  /\ pc = "running"
  /\ \/ /\ command = "boundary"
        /\ outputLines \in Arrangements(ShuffledBoundaryLines, MaxShuffled)
     \/ /\ command = "banner"
        /\ outputLines \in Arrangements(ShuffledBannerLines, MaxShuffled)
  /\ silences = <<>>
  /\ searched = <<>>
  /\ candidates = <<>>
  /\ PostIdle
  /\ CacheIdle
  /\ MainIdle

NextShuffled == DetectBoundaries \/ DetectBanners

SpecShuffled == InitShuffled /\ [][NextShuffled]_vars

----------------------------------------------------------------------------
(* Detection over silences that may overlap: findSilences puts no          *)
(* condition on the windows it is given.  Windows [1000, 1600],            *)
(* [1500, 6000] and [2000, 3000] ms, and filter 22 frames at 500, 1200,    *)
(* 1500, 2500 and 7000 ms.                                                 *)

WindowLines ==
  {SilenceLine(16000, 6000), SilenceLine(60000, 45000), SilenceLine(30000, 10000)}
    \cup {FrameLine(22, n) : n \in {5, 12, 15, 25, 70}}

InitWindows ==
  /\ pc = "running"
  /\ command = "boundary"
  /\ outputLines \in Arrangements(WindowLines, MaxShuffled)
  /\ silences = <<>>
  /\ searched = <<>>
  /\ candidates = <<>>
  /\ PostIdle
  /\ CacheIdle
  /\ MainIdle

NextWindows == DetectBoundaries

SpecWindows == InitWindows /\ [][NextWindows]_vars

----------------------------------------------------------------------------
(* The schedule module on its own: getCurrentProgramme is called again and *)
(* again, one call at a time, and time passes between the calls.           *)

Horizon == ClockAtStart + 2 * MAX_CACHE_AGE

TimePasses(d) ==
  /\ mpc = "idle"
  /\ clock + d <= Horizon
  /\ clock' = clock + d
  /\ UNCHANGED <<scheduleData, scheduleDataTimestamp, getScheduleCalls, latest, call,
                 mainVars, detectVars, postVars>>

GetCurrentProgramme(response, dt) ==
  /\ mpc = "idle"
  /\ call.n < MaxCalls
  /\ LET m   == getScheduleMemoized(response, dt)
         cur == getCurrentProgramme(m, safetyBuffer)
     IN  /\ CacheAfter(m)
         /\ programme' = IF cur.rejected THEN Undefined ELSE cur.programme
  /\ UNCHANGED <<mpc, safetyBuffer, sleepMillis, tasks, logged, polls,
                 detectVars, postVars>>

InitCache == DetectIdle /\ PostIdle /\ CacheIdle /\ MainIdle

NextCache ==
  \/ \E d \in {20 * Minute, 60 * Minute} : TimePasses(d)
  \/ \E response \in Responses, dt \in FetchMillis : GetCurrentProgramme(response, dt)

SpecCache == InitCache /\ [][NextCache]_vars

----------------------------------------------------------------------------
(* main.  A pass of the loop runs from getCurrentProgramme to the sleep;   *)
(* the recordIfDesired invocations it starts run on their own.             *)

InitMain ==
  /\ DetectIdle
  /\ PostIdle
  /\ CacheIdle
  /\ mpc = "start"
  /\ safetyBuffer \in {0, 40000}
  /\ programme = Undefined
  /\ sleepMillis = 0
  /\ tasks = <<>>
  /\ logged = <<>>
  /\ polls = 0

\* await makeSaveDirectory(): main enters the loop, or rejects before it
MakeSaveDirectory(ok) ==
  /\ mpc = "start"
  /\ mpc' = IF ok THEN "poll" ELSE "failed"
  /\ UNCHANGED <<safetyBuffer, programme, sleepMillis, tasks, logged, polls,
                 cacheVars, detectVars, postVars>>

\* one pass of the loop body, up to its sleep
Poll(response, dt) ==
  /\ mpc = "poll"
  /\ polls < MaxPolls
  /\ polls' = polls + 1
  /\ LET m   == getScheduleMemoized(response, dt)
         cur == getCurrentProgramme(m, safetyBuffer)
     IN  /\ CacheAfter(m)
         /\ IF cur.rejected
              THEN /\ logged' = Append(logged, "error")
                   /\ sleepMillis' = 1000
                   /\ mpc' = "sleep"
                   /\ UNCHANGED <<programme, tasks>>
            ELSE IF cur.programme = Undefined
              THEN /\ programme' = Undefined
                   /\ sleepMillis' = 3 * 1000
                   /\ mpc' = "sleep"
                   /\ UNCHANGED <<tasks, logged>>
            ELSE /\ programme' = cur.programme
                 /\ tasks' = Append(tasks, recordIfDesired(cur.programme))
                 /\ sleepMillis' = Max(cur.programme.endDate - m.clock - safetyBuffer, 0)
                 /\ mpc' = IF sleepMillis' > 0 THEN "sleep" ELSE "poll"
                 /\ UNCHANGED logged
  /\ UNCHANGED <<safetyBuffer, detectVars, postVars>>

\* the sleep is over
Wake ==
  /\ mpc = "sleep"
  /\ clock' = clock + sleepMillis
  /\ mpc' = "poll"
  /\ UNCHANGED <<scheduleData, scheduleDataTimestamp, getScheduleCalls, latest, call,
                 safetyBuffer, programme, sleepMillis, tasks, logged, polls,
                 detectVars, postVars>>

\* recordingExists(programme) resolves: with a recording there already
\* recordIfDesired returns, without one it calls record(programme)
RecordingExists(i, exists) ==
  /\ i \in 1..Len(tasks)
  /\ tasks[i].state = "recordingExists"
  /\ tasks' = [tasks EXCEPT ![i].state = IF exists THEN "returned" ELSE "record",
                            ![i].existing = IF exists THEN "yes" ELSE "no",
                            ![i].recorded = ~exists]
  /\ UNCHANGED <<mpc, safetyBuffer, programme, sleepMillis, logged, polls,
                 cacheVars, detectVars, postVars>>

\* record(programme) resolves
RecordEnds(i) ==
  /\ i \in 1..Len(tasks)
  /\ tasks[i].state = "record"
  /\ tasks' = [tasks EXCEPT ![i].state = "returned"]
  /\ UNCHANGED <<mpc, safetyBuffer, programme, sleepMillis, logged, polls,
                 cacheVars, detectVars, postVars>>

\* recordingExists or record rejects: the .catch handler logs it
RecordFails(i) ==
  /\ i \in 1..Len(tasks)
  /\ tasks[i].state \in {"recordingExists", "record"}
  /\ tasks' = [tasks EXCEPT ![i].state = "rejected"]
  /\ logged' = Append(logged, "Failed to record desired programme")
  /\ UNCHANGED <<mpc, safetyBuffer, programme, sleepMillis, polls,
                 cacheVars, detectVars, postVars>>

NextMain ==
  \/ \E ok \in BOOLEAN : MakeSaveDirectory(ok)
  \/ \E response \in Responses, dt \in FetchMillis : Poll(response, dt)
  \/ Wake
  \/ \E i \in 1..MaxPolls, exists \in BOOLEAN : RecordingExists(i, exists)
  \/ \E i \in 1..MaxPolls : RecordEnds(i)
  \/ \E i \in 1..MaxPolls : RecordFails(i)

SpecMain == InitMain /\ [][NextMain]_vars

\* the sleep timer fires
SpecMainFair == SpecMain /\ WF_vars(Wake)

----------------------------------------------------------------------------
(* Properties *)

BoundaryDone == pc = "done" /\ command = "boundary"

\* the strategies the finished call ran findBlackframeGroups with
StrategiesRun ==
  IF command = "banner" THEN <<NEWS_BANNER_STRATEGY>>
  ELSE [i \in 1..Len(searched) |-> BOUNDARY_STRATEGIES[i]]

\* the silence index the finished call used
Windows == CandidateWindows(silences)

DeclaredOrder ==
  <<"black-logo", "white-logo", "white-borders-logo", "black-logo-ai-subtitles",
    "black-no-logo-ai-subtitles", "no-logo", "newsline">>

FeaturesOf(k) == findBlackframeGroups(outputLines, BOUNDARY_STRATEGIES[k], Windows)

\* some printed line of one of these filters reports this frame at this time
Reported(filters, frameNum, time) ==
  \E i \in 1..Len(outputLines) :
    /\ outputLines[i].kind = "blackframe"
    /\ outputLines[i].filterNum \in filters
    /\ outputLines[i].frame = frameNum
    /\ 10 * time - 5 <= outputLines[i].time
    /\ outputLines[i].time <= 10 * time + 5

OverlapMillis(time) ==
  LET ds == {silences[i].endTime - silences[i].startTime :
               i \in {j \in 1..Len(silences) :
                        silences[j].startTime <= time /\ time <= silences[j].endTime}}
  IN  IF ds = {} THEN 0 ELSE CHOOSE d \in ds : \A e \in ds : e <= d

\* C2: every frame event a strategy keeps lies in a silence of at least
\* minSilenceSeconds (here tenths of a second, so times 100 is milliseconds).
C2_SilenceGating ==
  BoundaryDone =>
    \A k \in 1..Len(searched) :
      LET strategy == BOUNDARY_STRATEGIES[k]
          kept     == SelectFrames(outputLines, strategy, Windows)
      IN  \A i \in 1..Len(kept) :
            OverlapMillis(kept[i].time) >= 100 * MinSilenceOf(strategy)

NoSilenceLine ==
  \A i \in 1..Len(outputLines) : outputLines[i].kind # "silencedetect"

\* C3: when the output has no silence line, detectPotentialBoundaries returns
\* normally with an empty result and has evaluated no strategy.
C3_NoSilenceNoSearch ==
  (BoundaryDone /\ NoSilenceLine) =>
    /\ silences = <<>>
    /\ searched = <<>>
    /\ candidates = <<>>

\* no silence line, but a newsline frame that needs no silence was printed
C3_Witness ==
  /\ BoundaryDone
  /\ NoSilenceLine
  /\ \E i \in 1..Len(outputLines) :
       outputLines[i].kind = "blackframe" /\ outputLines[i].filterNum = 22
  /\ candidates = <<>>

\* the runs of a strategy that have at least minFrames events, in order
Qualifying(runs, minFrames) ==
  SelectSeq(runs, LAMBDA g : Len(g) >= minFrames)

\* C4: findBlackframeGroups returns one feature per run of at least
\* minFrames events, in run order, and none for a shorter run; a feature's
\* start and firstFrame are those of the run's first event, its end and
\* lastFrame those of the last.  The finished call returned such a result.
C4_MinFrames ==
  pc = "done" =>
    /\ \A k \in 1..Len(StrategiesRun) :
         LET strategy == StrategiesRun[k]
             runs     == FrameGroups(outputLines, strategy, Windows)
             features == findBlackframeGroups(outputLines, strategy, Windows)
             good     == Qualifying(runs, strategy.minFrames)
         IN  /\ Len(features) = Len(good)
             /\ \A i \in 1..Len(good) :
                  /\ features[i].start = good[i][1].time
                  /\ features[i].firstFrame = good[i][1].frameNum
                  /\ features[i].end = good[i][Len(good[i])].time
                  /\ features[i].lastFrame = good[i][Len(good[i])].frameNum
             /\ (k = Len(StrategiesRun) => candidates = features)
    /\ BOUNDARY_STRATEGIES[6].minFrames = 3

\* no-logo (minFrames = 3) has a run of three events and returns it
C4_Witness ==
  /\ BoundaryDone
  /\ Len(searched) = 6
  /\ \E i \in 1..Len(FrameGroups(outputLines, BOUNDARY_STRATEGIES[6], Windows)) :
       Len(FrameGroups(outputLines, BOUNDARY_STRATEGIES[6], Windows)[i]) = 3
  /\ Len(candidates) = 1
  /\ candidates[1].firstFrame = 20
  /\ candidates[1].lastFrame = 22

\* no-logo is given a run of two events only, and returns nothing for it
C4_WitnessRejected ==
  /\ BoundaryDone
  /\ Len(searched) = 7
  /\ \E i \in 1..Len(FrameGroups(outputLines, BOUNDARY_STRATEGIES[6], Windows)) :
       Len(FrameGroups(outputLines, BOUNDARY_STRATEGIES[6], Windows)[i]) = 2
  /\ FeaturesOf(6) = <<>>

\* C9 (as amended): the i-th silence line (end e, duration d, in 1/10000 s)
\* gives the i-th Silence with endTime = e and startTime = e - d rounded to
\* the millisecond and startTime <= endTime; startTime is non-negative
\* whenever d <= e.  The documented example gives {8500, 10500}.
C9_SilenceFromEndAndDuration ==
  BoundaryDone =>
    LET ms == SelectSeq(outputLines, LAMBDA l : l.kind = "silencedetect")
    IN  /\ Len(silences) = Len(ms)
        /\ \A i \in 1..Len(ms) :
             LET e == ms[i].endTime
                 d == ms[i].duration
                 s == silences[i]
             IN  /\ 10 * s.endTime - 5 <= e
                 /\ e <= 10 * s.endTime + 5
                 /\ 10 * s.startTime - 5 <= e - d
                 /\ e - d <= 10 * s.startTime + 5
                 /\ s.startTime <= s.endTime
                 /\ (d <= e => 0 <= s.startTime)
                 /\ ((e = 105000 /\ d = 20000) =>
                       s = [startTime |-> 8500, endTime |-> 10500])

C9_Witness ==
  /\ BoundaryDone
  /\ outputLines = <<SilenceLine(105000, 20000)>>
  /\ silences = <<[startTime |-> 8500, endTime |-> 10500]>>

\* C9 as claimed: every Silence has 0 <= startTime <= endTime.
C9_Original ==
  BoundaryDone =>
    \A i \in 1..Len(silences) :
      0 <= silences[i].startTime /\ silences[i].startTime <= silences[i].endTime

\* the number of events in the first j runs
RunEnd(runs, j) == Len(Flatten(SubSeq(runs, 1, j)))

\* C10: the runs of a strategy are its selected events, in order, cut into
\* non-empty pieces: each event is in exactly one run, and a run ends between
\* two neighbouring events exactly when their filterNum differs or the
\* frameNum gap exceeds maxSkip (120 for the banner strategy, which sets it,
\* and 1 for the boundary strategies, which do not).
C10_GreedyRuns ==
  pc = "done" =>
    \A k \in 1..Len(StrategiesRun) :
      LET strategy == StrategiesRun[k]
          maxSkip  == IF command = "banner" THEN 120 ELSE 1
          selected == SortFrames(SelectFrames(outputLines, strategy, Windows))
          runs     == FrameGroups(outputLines, strategy, Windows)
          ends     == {RunEnd(runs, j) : j \in 1..(Len(runs) - 1)}
      IN  /\ Flatten(runs) = selected
          /\ \A j \in 1..Len(runs) : runs[j] # <<>>
          /\ \A i \in 1..(Len(selected) - 1) :
               (i \in ends) <=>
                 ~(/\ selected[i + 1].filterNum = selected[i].filterNum
                   /\ selected[i + 1].frameNum - selected[i].frameNum <= maxSkip)

FrameNums(runs) == [j \in 1..Len(runs) |-> [i \in 1..Len(runs[j]) |-> runs[j][i].frameNum]]

\* frames 10, 11, 30 of one filter, maxSkip 1: runs [10, 11] and [30]
C10_Witness ==
  /\ BoundaryDone
  /\ Len(searched) = 7
  /\ FrameNums(FrameGroups(outputLines, BOUNDARY_STRATEGIES[7], Windows))
       = << <<10, 11>>, <<30>> >>

\* the banner strategy (maxSkip 120) joins frames 10, 30, 130 and cuts before 300
C10_WitnessBanner ==
  /\ pc = "done"
  /\ command = "banner"
  /\ FrameNums(FrameGroups(outputLines, NEWS_BANNER_STRATEGY, Windows))
       = << <<10, 30, 130>>, <<300>> >>

\* the same lines in every order
Shuffles(lines) ==
  {[i \in 1..Len(lines) |-> lines[p[i]]] : p \in Permutations(1..Len(lines))}

FeatureSet(features) == {features[i] : i \in 1..Len(features)}

\* C11: the features findBlackframeGroups returns for a strategy do not
\* depend on the order of the lines: every reordering of the output gives the
\* same set of features, and each feature has firstFrame <= lastFrame and
\* start <= end.
C11_OrderIndependent ==
  pc = "done" =>
    \A k \in 1..Len(StrategiesRun) :
      LET strategy == StrategiesRun[k]
          features == findBlackframeGroups(outputLines, strategy, Windows)
      IN  /\ \A i \in 1..Len(features) :
               /\ features[i].firstFrame <= features[i].lastFrame
               /\ features[i].start <= features[i].end
          /\ \A lines \in Shuffles(outputLines) :
               FeatureSet(findBlackframeGroups(lines, strategy, Windows))
                 = FeatureSet(features)

\* the silences whose window contains the time
Containing(time) ==
  {j \in 1..Len(silences) :
     silences[j].startTime <= time /\ time <= silences[j].endTime}

DurationOf(j) == silences[j].endTime - silences[j].startTime

\* the times of the frame events of the output
FrameTimes ==
  {ParseBlackframes(outputLines)[i].time : i \in 1..Len(ParseBlackframes(outputLines))}

\* C12 (as amended): the containment query at a frame's time P finds
\* something exactly when some window contains P, and the value taken from
\* it is the duration of one of the windows containing P: for P inside
\* exactly one window it is that window's duration, with several it need
\* not be the largest.  When no window contains P the gate is decided as if
\* the value were 0: the frame passes only a strategy whose minimum is 0.
C12_OverlapIsAContainingWindow ==
  BoundaryDone =>
    \A P \in FrameTimes :
      LET found == TreeSearch(Windows, P, P)
      IN  /\ found # <<>> <=> Containing(P) # {}
          /\ found # <<>> => \E j \in Containing(P) : Head(found) = DurationOf(j)
          /\ \A j \in Containing(P) :
               Containing(P) = {j} => Head(found) = DurationOf(j)
          /\ Containing(P) = {} =>
               \A k \in 1..Len(BOUNDARY_STRATEGIES) :
                 SilenceGate(P, BOUNDARY_STRATEGIES[k], Windows)
                   <=> BOUNDARY_STRATEGIES[k].minSilenceSeconds <= 0

\* the frame at 1500 ms lies in the 600 ms and the 4500 ms window, and the
\* query answers 600; the frame at 1200 ms lies in the 600 ms window only
C12_Witness ==
  /\ BoundaryDone
  /\ {1200, 1500} \subseteq FrameTimes
  /\ Cardinality(Containing(1500)) = 2
  /\ Head(TreeSearch(Windows, 1500, 1500)) = 600
  /\ OverlapMillis(1500) = 4500
  /\ Containing(1200) # {}
  /\ Head(TreeSearch(Windows, 1200, 1200)) = 600

\* a frame outside every window: the query finds nothing
C12_WitnessOutside ==
  /\ BoundaryDone
  /\ silences # <<>>
  /\ 7000 \in FrameTimes
  /\ TreeSearch(Windows, 7000, 7000) = <<>>

\* C12 as claimed: the value is the largest duration among the windows
\* containing P, and 0 when there is none.
C12_Original ==
  BoundaryDone =>
    \A P \in FrameTimes :
      LET found == TreeSearch(Windows, P, P)
      IN  (IF found = <<>> THEN 0 ELSE Head(found)) = OverlapMillis(P)

----------------------------------------------------------------------------
(* Properties of post-processing *)

PostDone == ppc = "done"

HasArg(group) == \E i \in 1..Len(args) : args[i] = group

HasOption(name) == \E i \in 1..Len(args) : args[i][1] = name

\* the filters of the -filter_complex argument, none when it is absent
FilterGraph ==
  LET gs == SelectSeq(args, LAMBDA g : g[1] = "-filter_complex")
  IN  IF gs = <<>> THEN <<>> ELSE gs[1][2]

FiltersNamed(name) == SelectSeq(FilterGraph, LAMBDA f : f.filter = name)

\* the value of an expression at playback time t (milliseconds)
RECURSIVE Eval(_, _)
Eval(expr, t) ==
  IF expr[1] = "val" THEN expr[2]
  ELSE IF t >= expr[2] THEN expr[3]
  ELSE Eval(expr[4], t)

PlaybackTimes == {0, 500, 1000, 1500, 2000, 2500}

\* the observations made up to time t
SeenBy(t) == {i \in 1..Len(cropParameters) : cropParameters[i].time <= t}

LatestSeen(t) == CHOOSE i \in SeenBy(t) : \A j \in SeenBy(t) : j <= i

\* C5 (as amended): for a non-empty crop sequence in time order, the overlay
\* offset and the scaled width expressions evaluate at playback time t to the
\* value for the width of the latest observation whose time is <= t, and for
\* t earlier than all observations to the value for the target width.
C5_TimeSequence ==
  (PostDone /\ cropParameters # <<>>) =>
    LET offset == FiltersNamed("overlay")[1].x
        scaled == FiltersNamed("scale")[1].width
    IN  \A t \in PlaybackTimes :
          LET width == IF SeenBy(t) = {} THEN targetWidth
                       ELSE cropParameters[LatestSeen(t)].width
          IN  /\ Eval(offset, t) = makeCalculateOverlayPosition(targetWidth)[width]
              /\ Eval(scaled, t) = makeCalculateScaleWidth(targetWidth)[width]

\* two observations, the earliest after time 0 and narrower than the target
C5_Witness ==
  /\ PostDone
  /\ Len(cropParameters) >= 2
  /\ cropParameters[1].time > 0
  /\ cropParameters[1].width # targetWidth
  /\ Eval(FiltersNamed("overlay")[1].x, 0) = 0
  /\ Eval(FiltersNamed("overlay")[1].x, 2500) # 0

\* C5 as claimed: for t earlier than all observations the expressions
\* evaluate to the value for the earliest observation's width.
C5_Original ==
  (PostDone /\ cropParameters # <<>>) =>
    LET offset == FiltersNamed("overlay")[1].x
        scaled == FiltersNamed("scale")[1].width
    IN  \A t \in PlaybackTimes :
          LET width == IF SeenBy(t) = {} THEN cropParameters[1].width
                       ELSE cropParameters[LatestSeen(t)].width
          IN  /\ Eval(offset, t) = makeCalculateOverlayPosition(targetWidth)[width]
              /\ Eval(scaled, t) = makeCalculateScaleWidth(targetWidth)[width]

\* the offset and the scaled width in force once the one observation applies
OffsetInForce == Eval(FiltersNamed("overlay")[1].x, cropParameters[1].time)
ScaledInForce == Eval(FiltersNamed("scale")[1].width, cropParameters[1].time)

\* C13 (as amended): for target width W and an observation of crop width cw
\* the scaled width v is an even integer, the even integer nearest to
\* W * W / cw.  When cw = W the offset is 0 and v is W for even W and W + 1
\* for odd W; a 1920 observation against a 1920 target gives 0 and 1920.
C13_NoOpForEvenWidth ==
  (PostDone /\ Len(cropParameters) = 1) =>
    LET W  == targetWidth
        cw == cropParameters[1].width
        o  == OffsetInForce
        v  == ScaledInForce
    IN  /\ v % 2 = 0
        /\ cw * v <= W * W + cw
        /\ W * W + cw < cw * v + 2 * cw
        /\ cw = W =>
             /\ o = 0
             /\ v = IF W % 2 = 0 THEN W ELSE W + 1
        /\ (cw = 1920 /\ W = 1920) => (o = 0 /\ v = 1920)

\* an odd width against itself: scaled to the next even width
C13_Witness ==
  /\ PostDone
  /\ Len(cropParameters) = 1
  /\ targetWidth = 15
  /\ cropParameters[1].width = 15
  /\ OffsetInForce = 0
  /\ ScaledInForce = 16

\* the documented example: 1920 against 1920
C13_WitnessFullWidth ==
  /\ PostDone
  /\ Len(cropParameters) = 1
  /\ targetWidth = 1920
  /\ cropParameters[1] = [time |-> 0, width |-> 1920]
  /\ OffsetInForce = 0
  /\ ScaledInForce = 1920

\* C13 as claimed: for every target width W an observation of crop width W
\* gives offset 0 and scaled width W.
C13_Original ==
  (PostDone /\ Len(cropParameters) = 1 /\ cropParameters[1].width = targetWidth) =>
    /\ OffsetInForce = 0
    /\ ScaledInForce = targetWidth

CorrectionFilters == {"nullsrc", "overlay", "scale", "crop"}

\* C6: the arguments re-encode the video exactly when the crop sequence is
\* non-empty.  Empty: no correction filter, no libx264 options, the video
\* stream 0:0 mapped under -codec copy, with or without a thumbnail.
\* Non-empty: the graph's output [c] is mapped and encoded with libx264.
\* Audio 0:1 and the metadata are mapped either way.
C6_ReencodeIffCropped ==
  PostDone =>
    /\ HasArg(<<"-codec", "copy">>)
    /\ HasArg(<<"-map", "0:1">>)
    /\ HasArg(<<"-map_metadata", "0">>)
    /\ cropParameters = <<>> =>
         /\ \A i \in 1..Len(FilterGraph) : FilterGraph[i].filter \notin CorrectionFilters
         /\ HasArg(<<"-map", "0:0">>)
         /\ ~HasArg(<<"-map", "[c]">>)
         /\ ~HasOption("-codec:v:0") /\ ~HasOption("-crf") /\ ~HasOption("-preset")
    /\ cropParameters # <<>> =>
         /\ \A name \in CorrectionFilters : Len(FiltersNamed(name)) = 1
         /\ HasArg(<<"-map", "[c]">>)
         /\ HasArg(<<"-codec:v:0", "libx264">>)
         /\ ~HasArg(<<"-map", "0:0">>)

\* no crop observation, but a thumbnail stream and so a filter graph
C6_Witness ==
  /\ PostDone
  /\ cropParameters = <<>>
  /\ numStreams = 3
  /\ FilterGraph # <<>>
  /\ HasArg(<<"-map", "0:0">>)

\* C7: when the probe succeeds with (w, h) and the crop sequence is not
\* empty, the base canvas and the final crop are w x h, the target
\* dimensions are (w, h), and every offset o and scaled width v the graph
\* can take is computed against w: o = round((cw - w) / 2) and
\* v = round(w * w / cw / 2) * 2 for an observed crop width cw, or for w.
C7_ProbedSize ==
  (PostDone /\ getVideoDimensions(probe).ok /\ cropParameters # <<>>) =>
    LET w == getVideoDimensions(probe).width
        h == getVideoDimensions(probe).height
    IN  /\ targetWidth = w
        /\ targetHeight = h
        /\ FilterGraph[1] = [filter |-> "nullsrc", width |-> w, height |-> h]
        /\ FiltersNamed("crop") = <<[filter |-> "crop", width |-> w, height |-> h]>>
        /\ \A t \in PlaybackTimes :
             LET o == Eval(FiltersNamed("overlay")[1].x, t)
                 v == Eval(FiltersNamed("scale")[1].width, t)
             IN  \E cw \in {w} \cup {cropParameters[i].width : i \in 1..Len(cropParameters)} :
                   /\ 2 * o - 1 <= cw - w /\ cw - w <= 2 * o
                   /\ v % 2 = 0
                   /\ cw * v <= w * w + cw /\ w * w + cw < cw * v + 2 * cw

\* a 1280x720 recording with a crop observation
C7_Witness ==
  /\ PostDone
  /\ cropParameters # <<>>
  /\ getVideoDimensions(probe).ok
  /\ targetWidth = 1280
  /\ targetHeight = 720
  /\ FilterGraph[1] = [filter |-> "nullsrc", width |-> 1280, height |-> 720]

WidthFields  == {"width", "coded_width"}
HeightFields == {"height", "coded_height"}

\* C8: when ffprobe's first video stream has no width field or no height
\* field of either kind, postProcessRecording still returns normally, with
\* target dimensions 1920x1080, a warning logged, and the post-process
\* command executed exactly once; when width and height are present they are
\* the target dimensions, whatever the coded fields say.  Only a failed
\* stream count makes the call fail, and then the command has not run.
C8_ProbeFallback ==
  /\ PostDone =>
       /\ ffmpegRuns = 1
       /\ probe.status = "ok" =>
            LET stream == IF Len(probe.streams) > 0 THEN probe.streams[1]
                          ELSE [f \in {} |-> 0]
            IN  /\ (DOMAIN stream \cap WidthFields = {}
                      \/ DOMAIN stream \cap HeightFields = {}) =>
                     /\ targetWidth = 1920
                     /\ targetHeight = 1080
                     /\ warned
                /\ {"width", "height"} \subseteq DOMAIN stream =>
                     /\ targetWidth = stream.width
                     /\ targetHeight = stream.height
                     /\ ~warned
  /\ ppc = "failed" => (ffmpegRuns = 0 /\ probe.status = "none")

\* none of the four fields is there; the command ran once on 1920x1080
C8_Witness ==
  /\ PostDone
  /\ probe.status = "ok"
  /\ Len(probe.streams) = 1
  /\ DOMAIN probe.streams[1] = {}
  /\ cropParameters # <<>>
  /\ targetWidth = 1920
  /\ targetHeight = 1080
  /\ ffmpegRuns = 1
  /\ FilterGraph[1] = [filter |-> "nullsrc", width |-> 1920, height |-> 1080]

----------------------------------------------------------------------------
(* Properties of the schedule cache *)

\* this step is a getScheduleMemoized call running to its end
CallStep == call'.n = call.n + 1

\* the cache age the call finds
CacheAge == clock - scheduleDataTimestamp

\* C14: a getScheduleMemoized call that finds the cache younger than
\* MAX_CACHE_AGE returns the stored schedule without calling getSchedule and
\* changes nothing; one that finds it of that age or older calls getSchedule
\* once, and when that succeeds stores its result, stamps it with the time
\* then current and returns it.  The stored schedule is always the result of
\* the most recent successful getSchedule, stamped no later than now, and a
\* call that returns normally returns it, never null.
C14_CacheFreshness ==
  [][CallStep =>
       /\ CacheAge < 60 * 60 * 1000 =>
            /\ getScheduleCalls' = getScheduleCalls
            /\ ~call'.fetched /\ ~call'.thrown
            /\ call'.value = scheduleData
            /\ UNCHANGED <<scheduleData, scheduleDataTimestamp, latest, clock>>
       /\ CacheAge >= 60 * 60 * 1000 =>
            /\ getScheduleCalls' = getScheduleCalls + 1
            /\ call'.fetched
            /\ ~call'.failed =>
                 /\ latest'.id = getScheduleCalls'
                 /\ scheduleData' = latest'
                 /\ call'.value = latest'
                 /\ scheduleDataTimestamp' = clock'
       /\ scheduleData' = latest'
       /\ scheduleDataTimestamp' <= clock'
       /\ (scheduleDataTimestamp' = 0) <=> (latest' = Null)
       /\ ~call'.thrown => (call'.value # Null /\ call'.value = latest')
       /\ MAX_CACHE_AGE = 60 * 60 * 1000
    ]_vars

\* a second fetch succeeded, and a later call was answered from the cache it filled
C14_Witness ==
  /\ call.n >= 3
  /\ getScheduleCalls = 2
  /\ ~call.fetched
  /\ call.age > 0
  /\ call.value = latest
  /\ latest # Null
  /\ latest.id = 2

\* a call that found the cache exactly MAX_CACHE_AGE old fetched anew
C14_WitnessAtAge ==
  /\ call.age = MAX_CACHE_AGE
  /\ call.fetched
  /\ ~call.failed
  /\ latest.id = 2
  /\ scheduleDataTimestamp = clock

\* C15: when getSchedule fails in a getScheduleMemoized call, scheduleData
\* and scheduleDataTimestamp stay as they were; with a schedule stored the
\* call returns that stale schedule, with none it throws.  The call after a
\* failed one calls getSchedule again.
C15_CacheOnFailure ==
  [][CallStep =>
       /\ call'.failed =>
            /\ call'.fetched
            /\ getScheduleCalls' = getScheduleCalls + 1
            /\ UNCHANGED <<scheduleData, scheduleDataTimestamp, latest>>
            /\ latest # Null => (~call'.thrown /\ call'.value = latest)
            /\ latest = Null => call'.thrown
       /\ call'.thrown => (call'.failed /\ latest = Null)
       /\ call.failed => (call'.fetched /\ getScheduleCalls' = getScheduleCalls + 1)
    ]_vars

\* the first fetch succeeded, the second and the third failed, one after the
\* other, and the stale schedule was returned
C15_Witness ==
  /\ call.n = 3
  /\ getScheduleCalls = 3
  /\ call.failed
  /\ ~call.thrown
  /\ latest.id = 1
  /\ call.value = latest
  /\ scheduleData = latest
  /\ clock - scheduleDataTimestamp >= MAX_CACHE_AGE

\* no fetch ever succeeded: the error is rethrown
C15_WitnessRethrown ==
  /\ call.n = 2
  /\ getScheduleCalls = 2
  /\ call.thrown
  /\ scheduleData = Null
  /\ scheduleDataTimestamp = 0

----------------------------------------------------------------------------
(* Properties of the main loop *)

InLoop == mpc \in {"poll", "sleep"}

\* this step is one pass of main's loop body
PollStep == polls' = polls + 1

\* the programmes of the schedule the pass was given that are on air at
\* now() + safetyBuffer, now() read after the schedule came back
OnAirAfter ==
  SelectSeq(call'.value.items,
            LAMBDA p : clock' + safetyBuffer > p.startDate
                         /\ clock' + safetyBuffer < p.endDate)

Wanted(p) ==
  p.title = "Journeys in Japan" /\ p.endDate - p.startDate > 5 * 60 * 1000

\* C16: once entered, main's loop is never left.  A pass whose
\* getCurrentProgramme rejects logs the error and sleeps 1 s; a pass with
\* nothing on air sleeps 3 s; a pass with a programme on air starts one
\* recordIfDesired for it and, without waiting for it, sleeps until
\* endDate - safetyBuffer, or not at all when that time has come.  Every
\* sleep ends in the next pass.  A recordIfDesired invocation that fails is
\* logged and changes nothing of the loop, and record is called only for a
\* programme with a matching title, longer than the minimum duration, for
\* which recordingExists answered no.
C16_LoopNeverExits ==
  /\ [](mpc \in {"start", "failed", "poll", "sleep"})
  /\ [][InLoop => InLoop']_vars
  /\ [][PollStep =>
          /\ mpc = "poll"
          /\ call'.n = call.n + 1
          /\ call'.thrown =>
               /\ mpc' = "sleep" /\ sleepMillis' = 1000
               /\ logged' = Append(logged, "error")
               /\ tasks' = tasks
          /\ (~call'.thrown /\ OnAirAfter = <<>>) =>
               /\ mpc' = "sleep" /\ sleepMillis' = 3000
               /\ logged' = logged
               /\ tasks' = tasks
          /\ (~call'.thrown /\ OnAirAfter # <<>>) =>
               LET p == Head(OnAirAfter)
               IN  /\ Len(tasks') = Len(tasks) + 1
                   /\ SubSeq(tasks', 1, Len(tasks)) = tasks
                   /\ Last(tasks').programme = p
                   /\ ~Last(tasks').recorded
                   /\ logged' = logged
                   /\ sleepMillis' >= 0
                   /\ p.endDate - safetyBuffer > clock' =>
                        (mpc' = "sleep" /\ clock' + sleepMillis' = p.endDate - safetyBuffer)
                   /\ p.endDate - safetyBuffer <= clock' =>
                        (mpc' = "poll" /\ sleepMillis' = 0)
       ]_vars
  /\ [][(mpc = "sleep" /\ mpc' # "sleep") =>
          (mpc' = "poll" /\ clock' = clock + sleepMillis)]_vars
  /\ [][\A i \in 1..Len(tasks) :
          /\ (tasks'[i].state = "rejected" /\ tasks[i].state # "rejected") =>
               /\ logged' = Append(logged, "Failed to record desired programme")
               /\ UNCHANGED <<mpc, sleepMillis, clock, polls, programme>>
          /\ (tasks'[i].recorded /\ ~tasks[i].recorded) =>
               UNCHANGED <<mpc, sleepMillis, clock, polls, programme>>
       ]_vars
  /\ [](\A i \in 1..Len(tasks) :
          tasks[i].recorded =>
            (Wanted(tasks[i].programme) /\ tasks[i].existing = "no"))
  /\ (mpc = "sleep") ~> (mpc = "poll")

\* a recording was started and failed while main slept on, until the
\* programme's end less the safety buffer
C16_Witness ==
  /\ mpc = "sleep"
  /\ safetyBuffer = 40000
  /\ Len(tasks) = 1
  /\ tasks[1].recorded
  /\ tasks[1].state = "rejected"
  /\ logged = <<"Failed to record desired programme">>
  /\ clock + sleepMillis = programme.endDate - safetyBuffer
  /\ sleepMillis > 3000

\* getCurrentProgramme rejected: logged, and a sleep of 1 s
C16_WitnessRejected ==
  /\ mpc = "sleep"
  /\ call.thrown
  /\ sleepMillis = 1000
  /\ Last(logged) = "error"

\* nothing on air: a sleep of 3 s
C16_WitnessNothingOnAir ==
  /\ mpc = "sleep"
  /\ ~call.thrown
  /\ polls >= 2
  /\ programme = Undefined
  /\ sleepMillis = 3000

\* the programme of 5 minutes was on air: title matched, nothing recorded
C16_WitnessTooShort ==
  /\ \E i \in 1..Len(tasks) :
       /\ tasks[i].programme.title = "Journeys in Japan"
       /\ tasks[i].programme.endDate - tasks[i].programme.startDate = 5 * 60 * 1000 - 2000
       /\ tasks[i].state = "returned"
       /\ ~tasks[i].recorded

\* a recording exists already: nothing recorded
C16_WitnessExists ==
  /\ \E i \in 1..Len(tasks) :
       /\ tasks[i].existing = "yes"
       /\ tasks[i].state = "returned"
       /\ ~tasks[i].recorded

====
